---- MODULE Spec2Model ----
(***************************************************************************)
(* Model of the stateful part of src/bot.py over the shared store          *)
(* context.bot_data and the job queue: the live dashboard session          *)
(* (live_monitor_start_handler, live_monitor_stop_handler,                 *)
(* live_update_callback) with its sampler get_live_stats, the watchers     *)
(* (cpu_alert_callback, check_wan_status, check_new_devices) and the       *)
(* scheduled reboot (schedule_reboot_handler, cancel_reboot_handler).      *)
(* Each part has its own specification over the same variables.            *)
(*                                                                         *)
(* Execution model.  Everything runs on one asyncio event loop, so code    *)
(* between two awaits is one atomic step and every await is a point where  *)
(* other coroutines run.  Job callbacks run as their own tasks and         *)
(* interleave with the update handlers and with each other; one job never  *)
(* overlaps with itself.  Update handlers are awaited one update at a time *)
(* unless the application is built with concurrent updates, which main()   *)
(* does not do (see concurrent_updates).                                   *)
(***************************************************************************)
EXTENDS Integers, FiniteSets, Sequences, TLC

\* ---------------------------------------------------------------- bounds
\* chats that use the live dashboard
MaxChat == 2
\* tick jobs registered over the lifetime of the process
MaxJobs == 2
\* largest value of a cumulative counter of /proc/stat
MaxCounter == 1
\* updates whose handlers can be in progress at once (one, unless
\* concurrent_updates is on)
MaxUpdates == 2
\* the clock, in seconds since the start of the process
MaxTime == 800
\* seconds by which a firing of the CPU watcher can be late
MaxLate == 1
\* devices (MAC addresses) that can hold a DHCP lease
MaxMac == 3
\* addresses a WAN interface can have
MaxAddr == 3
\* interfaces that carry a default route
MaxIfaces == 2
\* characters in the argument of /schedule_reboot
MaxArgLen == 5
\* the clock of the sampler, in half seconds
MaxSampleTime == 2
\* capacity of a link in Mbit/s, as configured in the environment
MaxMbps == 1
\* The largest number of hours asked of /guest_wifi_on, the hours the clock
\* runs, and the auto-off jobs pending at a time.
MaxHours == 2
MaxGuestClock == 4
MaxGuestJobs == 2
\* users who send requests
MaxUser == 2

Chats == 1..MaxChat
JobIds == 1..MaxJobs
Slots == 1..MaxUpdates
Counters == 0..MaxCounter
Macs == 1..MaxMac

VARIABLES
    bot_data,    \* context.bot_data: key -> retained value, DOMAIN = keys present
    job_queue,   \* the jobs registered in context.job_queue
    next_id,     \* identity of the next job object run_repeating creates
    running,     \* per job: the position of its callback invocation
    handlers,    \* per update slot: the position of the update handler
    now,         \* time.time() at the latest run of the CPU watcher, in seconds
    cpu_out,     \* what the latest run of the CPU watcher sent, or how it failed
    obs,         \* the run of high load as the watcher's readings show it
    known_devices_file,  \* KNOWN_DEVICES_FILE: the MAC addresses stored in it
    dev_out,     \* the latest run of the new-device watcher: inputs and effect
    wan_out,     \* the latest run of the WAN watcher: inputs and messages
    reboot_out,  \* the latest /schedule_reboot or /cancel_reboot: request and reply
    watch_jobs,  \* the callbacks of the repeating watcher jobs that are registered
    sample_in,   \* the sampler's inputs: retained snapshot, current reading, environment
    sample_out,  \* what get_live_stats returned for them
    guest_iface,     \* whether GUEST_WIFI_IFACE is set in the environment
    guest_clock,     \* the time, in hours since the bot started
    guest_disabled,  \* wireless.<iface>.disabled of the guest radio
    guest_timers,    \* the due times of the pending run_once auto-off jobs
    guest_out,       \* the latest /guest_wifi_on and what happened after it
    admin_id         \* TELEGRAM_ADMIN_ID as os.getenv returns it; <<>> when unset or empty

live_vars == <<job_queue, next_id, running, handlers>>
cpu_vars == <<now, cpu_out, obs>>
dev_vars == <<known_devices_file, dev_out>>
wan_vars == <<wan_out>>
reboot_vars == <<reboot_out>>
sample_vars == <<sample_in, sample_out>>
guest_vars == <<guest_iface, guest_clock, guest_disabled, guest_timers, guest_out>>
env_vars == <<admin_id>>
other_vars == <<dev_vars, wan_vars, reboot_vars, sample_vars, guest_vars, env_vars>>
vars == <<bot_data, job_queue, next_id, running, handlers, now, cpu_out, obs,
          known_devices_file, dev_out, wan_out, reboot_out, watch_jobs,
          sample_in, sample_out,
          guest_iface, guest_clock, guest_disabled, guest_timers, guest_out, admin_id>>

\* ------------------------------------------------------- the shared store
\* dict operations on context.bot_data
Has(d, k) == k \in DOMAIN d
Get(d, k, default) == IF k \in DOMAIN d THEN d[k] ELSE default
Put(d, k, v) == [x \in DOMAIN d \cup {k} |-> IF x = k THEN v ELSE d[x]]
Del(d, k) == [x \in DOMAIN d \ {k} |-> d[x]]
EmptyDict == [x \in {} |-> 0]

\* ---------------------------------------------------------- the job queue
job_name(chat_id) == "live_" \o ToString(chat_id)

get_jobs_by_name(q, name) == {j \in q : j.name = name}

\* Job.schedule_removal: the job leaves the queue at once; an invocation of
\* its callback that is already running runs on to its end.  Removing a job
\* that has left the queue already is taken to change nothing.
schedule_removal(q, js) == q \ js

\* job.schedule_removal() of the job whose callback is running.
RemoveOwnJob_skipped(q, j) == q
RemoveOwnJob(q, j) == schedule_removal(q, {j})

run_repeating(q, id, chat_id) ==
    q \cup {[id |-> id, name |-> job_name(chat_id), chat_id |-> chat_id]}

\* ------------------------------------------------------ counter readings
\* What /proc/stat holds at the moment it is read.
Readings == {r \in [cpu_total : Counters, cpu_idle : Counters] : r.cpu_idle <= r.cpu_total}

\* The counters part of get_live_stats: live_data and the snapshot to retain.
get_live_stats(prev_stats, cur) ==
    LET cpu_delta_total == cur.cpu_total - Get(prev_stats, "cpu_total", 0)
        cpu_delta_idle == cur.cpu_idle - Get(prev_stats, "cpu_idle", 0)
    IN  [live_data |->
            [cpu_percent |-> IF cpu_delta_total > 0
                             THEN (100 * (cpu_delta_total - cpu_delta_idle)) \div cpu_delta_total
                             ELSE 0],
         next_stats |-> [cpu_total |-> cur.cpu_total, cpu_idle |-> cur.cpu_idle]]

\* The snapshot live_monitor_start_handler builds.
initial_stats(cur) == [cpu_total |-> cur.cpu_total, cpu_idle |-> cur.cpu_idle]

\* ------------------------------------------------------------ positions
NoStats == [cpu_total |-> -1, cpu_idle |-> -1]
IdleRun == [pc |-> "idle", chat_id |-> 0, next_stats |-> NoStats]
IdleHandler == [kind |-> "none", chat_id |-> 0, pc |-> "idle"]
\* A handler that has ended: it returned, or an exception left it.
Ended(how) == [kind |-> "none", chat_id |-> 0, pc |-> how]

\* How edit_message_text can end: delivered, BadRequest "Message to edit not
\* found", BadRequest "Message is not modified", another BadRequest, or an
\* exception that is no BadRequest.
DeliveryOutcomes == {"ok", "gone", "unchanged", "bad_request", "error"}

\* main() builds the Application without concurrent_updates: the next update
\* is taken up only when the handler of the previous one has ended.
concurrent_updates_on == TRUE
concurrent_updates == FALSE

\* No run of high load: the latest reading was at or below the threshold, or
\* there was none yet.
NoRun == [since |-> -1, alerts |-> 0, attempted |-> FALSE, last |-> "none", notices |-> 0]

\* The new-device watcher has not run yet.
NoDevRun == [branch |-> "none", error |-> "none", known |-> {}, current |-> {}, msgs |-> <<>>]

\* The WAN watcher has not run yet.
NoWanRun == [ran |-> FALSE, wan_info |-> <<>>, last_ip |-> "absent", msgs |-> <<>>,
             delivered |-> FALSE]

\* get_live_stats has not been called.
NoSample == [live_data |-> EmptyDict, next_stats |-> EmptyDict]
NoInput == [prev_stats |-> EmptyDict, cur |-> EmptyDict, env |-> EmptyDict]

\* The repeating jobs main() registers when TELEGRAM_ADMIN_ID is set, named
\* by their callbacks.
WatcherJobs == {"check_wan_status", "check_new_devices", "cpu_alert_callback"}

\* No /guest_wifi_on has been handled yet.
NoGuestRequest == [event |-> "none", on_at |-> -1, hours |-> -1, off_issued |-> FALSE]

\* No reboot command has been handled yet.
NoRebootRequest == [handler |-> "none", user_id |-> 0, authorized |-> FALSE, matched |-> FALSE,
                    hour |-> -1, minute |-> -1, before |-> {}, reply |-> "none"]

Free(s) == handlers[s].pc \in {"idle", "returned", "raised"}

\* The state after main() has built the application, but for the sampler's
\* inputs.
InitProgram ==
    /\ bot_data = EmptyDict
    /\ job_queue = {}
    /\ next_id = 1
    /\ running = [i \in JobIds |-> IdleRun]
    /\ handlers = [s \in Slots |-> IdleHandler]
    /\ now = 0
    /\ cpu_out = "none"
    /\ obs = NoRun
    /\ known_devices_file = {}
    /\ dev_out = NoDevRun
    /\ wan_out = NoWanRun
    /\ reboot_out = NoRebootRequest
    /\ watch_jobs = WatcherJobs
    /\ guest_clock = 0
    /\ guest_timers = <<>>
    /\ guest_out = NoGuestRequest

\* The router as the bot finds it: GUEST_WIFI_IFACE is set and the guest
\* radio is disabled.
InitGuestEnv ==
    /\ guest_iface = TRUE
    /\ guest_disabled = TRUE

\* TELEGRAM_ADMIN_ID names the first user.
InitAdminEnv == admin_id = <<"6">>

Init ==
    /\ InitProgram
    /\ InitGuestEnv
    /\ InitAdminEnv
    /\ sample_in = NoInput
    /\ sample_out = NoSample

\* An update arrives and its handler starts: it runs to its first await,
\* query.answer().  The update takes the lowest idle slot; which slot it is
\* has no meaning.
Dispatch(s, kind, c) ==
    /\ Free(s)
    /\ \A t \in Slots : t < s => ~Free(t)
    /\ concurrent_updates \/ \A t \in Slots : Free(t)
    /\ handlers' = [handlers EXCEPT ![s] = [kind |-> kind, chat_id |-> c, pc |-> "answer"]]
    /\ UNCHANGED <<bot_data, job_queue, next_id, running, cpu_vars, other_vars, watch_jobs>>

\* ------------------------------------------- live_monitor_start_handler
\* if context.job_queue.get_jobs_by_name(job_name): return
already_running_unchecked(q, name) == FALSE
already_running(q, name) == get_jobs_by_name(q, name) # {}

StartRequest(s, c) ==
    /\ next_id <= MaxJobs
    /\ Dispatch(s, "start", c)

\* query.answer() ends; then the check for a job of this name, up to the
\* await of edit_text.
StartAnswer(s, answered) ==
    LET h == handlers[s] IN
    /\ h.kind = "start" /\ h.pc = "answer"
    /\ handlers' = [handlers EXCEPT ![s] =
            IF ~answered THEN Ended("raised")
            ELSE IF already_running(job_queue, job_name(h.chat_id)) THEN Ended("returned")
            ELSE [h EXCEPT !.pc = "edit"]]
    /\ UNCHANGED <<bot_data, job_queue, next_id, running, cpu_vars, other_vars, watch_jobs>>

\* edit_text ends; then the counters are read, the snapshot is stored and the
\* tick job is registered.  An empty /proc/stat makes splitlines()[0] raise.
StartEdit(s, edited, readable, cur) ==
    LET h == handlers[s]
        name == job_name(h.chat_id)
    IN
    /\ h.kind = "start" /\ h.pc = "edit"
    /\ next_id <= MaxJobs
    /\ IF edited /\ readable
       THEN /\ bot_data' = Put(bot_data, name, initial_stats(cur))
            /\ job_queue' = run_repeating(job_queue, next_id, h.chat_id)
            /\ next_id' = next_id + 1
            /\ handlers' = [handlers EXCEPT ![s] = Ended("returned")]
       ELSE /\ handlers' = [handlers EXCEPT ![s] = Ended("raised")]
            /\ UNCHANGED <<bot_data, job_queue, next_id>>
    /\ UNCHANGED <<running, cpu_vars, other_vars, watch_jobs>>

\* -------------------------------------------- live_monitor_stop_handler
StopRequest(s, c) == Dispatch(s, "stop", c)

\* The store after "if job_name in context.bot_data: del
\* context.bot_data[job.name]": job is the loop variable of the removal loop,
\* unbound when no job was found, and then the del raises.
stop_store_keeps(d, name, jobs) == [d |-> d, raised |-> FALSE]
stop_store_clears_all(d, name, jobs) == [d |-> EmptyDict, raised |-> FALSE]
stop_store(d, name, jobs) ==
    IF Has(d, name)
    THEN IF jobs = {} THEN [d |-> d, raised |-> TRUE]
         ELSE [d |-> Del(d, name), raised |-> FALSE]
    ELSE [d |-> d, raised |-> FALSE]

\* query.answer() ends; then the jobs of this name are removed and the
\* snapshot is deleted, up to the await of start_handler.
StopAnswer(s, answered) ==
    LET h == handlers[s]
        name == job_name(h.chat_id)
        jobs == get_jobs_by_name(job_queue, name)
    IN
    /\ h.kind = "stop" /\ h.pc = "answer"
    /\ IF ~answered
       THEN /\ handlers' = [handlers EXCEPT ![s] = Ended("raised")]
            /\ UNCHANGED <<bot_data, job_queue>>
       ELSE LET r == stop_store(bot_data, name, jobs) IN
            /\ job_queue' = schedule_removal(job_queue, jobs)
            /\ bot_data' = r.d
            /\ handlers' = [handlers EXCEPT ![s] =
                    IF r.raised THEN Ended("raised") ELSE [h EXCEPT !.pc = "menu"]]
    /\ UNCHANGED <<next_id, running, cpu_vars, other_vars, watch_jobs>>

\* start_handler, awaited at the end of the stop handler, redraws the menu.
StopMenu(s, shown) ==
    /\ handlers[s].kind = "stop" /\ handlers[s].pc = "menu"
    /\ handlers' = [handlers EXCEPT ![s] = Ended(IF shown THEN "returned" ELSE "raised")]
    /\ UNCHANGED <<bot_data, job_queue, next_id, running, cpu_vars, other_vars, watch_jobs>>

\* ------------------------------------------------- live_update_callback
\* prev_stats := context.bot_data.get(job.name, {}); "not prev_stats" holds
\* for the empty dict.
session_gone_unchecked(prev_stats) == FALSE
session_gone(prev_stats) == DOMAIN prev_stats = {}

\* "if job.name in context.bot_data: del context.bot_data[job.name]" of
\* the except branches.
drop_snapshot_skipped(d, name) == d
drop_snapshot(d, name) == IF Has(d, name) THEN Del(d, name) ELSE d

\* The job fires: from the lookup of the retained snapshot to the await of
\* edit_message_text.
TickBegin(j, readable, cur) ==
    LET name == j.name
        prev_stats == Get(bot_data, name, EmptyDict)
    IN
    /\ j \in job_queue
    /\ running[j.id].pc = "idle"
    /\ IF session_gone(prev_stats)
       THEN /\ job_queue' = RemoveOwnJob(job_queue, j)
            /\ running' = [running EXCEPT ![j.id] = IdleRun]
            /\ UNCHANGED bot_data
       ELSE IF ~readable
       THEN \* get_live_stats raises: the except Exception branch
            /\ bot_data' = drop_snapshot(bot_data, name)
            /\ job_queue' = RemoveOwnJob(job_queue, j)
            /\ running' = [running EXCEPT ![j.id] =
                    [pc |-> "notice", chat_id |-> j.chat_id, next_stats |-> NoStats]]
       ELSE LET next_stats == get_live_stats(prev_stats, cur).next_stats IN
            /\ bot_data' = Put(bot_data, name, next_stats)
            /\ running' = [running EXCEPT ![j.id] =
                    [pc |-> "edit", chat_id |-> j.chat_id, next_stats |-> next_stats]]
            /\ UNCHANGED job_queue
    /\ UNCHANGED <<next_id, handlers, cpu_vars, other_vars, watch_jobs>>

OnDelivery_gone_ignored(outcome) ==
    IF outcome = "error" THEN "stop_notify" ELSE "keep"
OnDelivery_unchanged_stops(outcome) ==
    CASE outcome \in {"ok", "bad_request"} -> "keep"
      [] outcome \in {"gone", "unchanged"} -> "stop"
      [] outcome = "error" -> "stop_notify"

\* What the except branches do with the way edit_message_text ended:
\* "stop" deletes the snapshot and removes the job, "stop_notify" does that
\* and then sends the failure notice, "keep" does nothing.
OnDelivery(outcome) ==
    CASE outcome = "ok" -> "keep"
      [] outcome = "gone" -> "stop"
      [] outcome = "unchanged" -> "keep"
      [] outcome = "bad_request" -> "keep"
      [] outcome = "error" -> "stop_notify"

\* edit_message_text ends: the try block is left, through one of the
\* except branches when it raised.
TickDeliver(i, outcome) ==
    LET r == running[i]
        name == job_name(r.chat_id)
        j == [id |-> i, name |-> name, chat_id |-> r.chat_id]
        todo == OnDelivery(outcome)
    IN
    /\ r.pc = "edit"
    /\ IF todo = "keep"
       THEN UNCHANGED <<bot_data, job_queue>>
       ELSE /\ bot_data' = drop_snapshot(bot_data, name)
            /\ job_queue' = RemoveOwnJob(job_queue, j)
    /\ running' = [running EXCEPT ![i] =
            IF todo = "stop_notify"
            THEN [pc |-> "notice", chat_id |-> r.chat_id, next_stats |-> NoStats]
            ELSE IdleRun]
    /\ UNCHANGED <<next_id, handlers, cpu_vars, other_vars, watch_jobs>>

\* send_message of the failure notice ends; its own failure is only logged.
TickNotice(i, sent) ==
    /\ running[i].pc = "notice"
    /\ running' = [running EXCEPT ![i] = IdleRun]
    /\ UNCHANGED <<bot_data, job_queue, next_id, handlers, cpu_vars, other_vars, watch_jobs>>

\* ------------------------------------------------- repeating watcher jobs
\* What is registered after a run of the repeating job `name`.  The watcher
\* callbacks never call schedule_removal, and the job queue does not drop a
\* repeating job whose callback raised: the exception goes to the
\* application's error handling and the job keeps its interval.
after_run_drops_failed(jobs, name, raised) == IF raised THEN jobs \ {name} ELSE jobs
after_run(jobs, name, raised) == jobs

\* The job queue fires the registered repeating job `name`: its callback
\* takes the step `callback`, and raised_after tells from the state after it
\* whether the callback left by an exception.
JobRun(name, callback, raised_after) ==
    /\ name \in watch_jobs
    /\ callback
    /\ watch_jobs' = after_run(watch_jobs, name, raised_after)

\* --------------------------------------------------- cpu_alert_callback
alert_threshold == 90
alert_duration == 300
cpu_interval == 60

\* load_percent as computed from /proc/loadavg and the core count.
LoadPercents == {50, alert_threshold, 95}

\* The branch for load_percent > alert_threshold at time t: the store after
\* it and what was sent.  A send_message that raises ends the callback there.
high_branch_repeats(d, t, delivered) ==
    LET d1 == IF ~Has(d, "cpu_high_since") THEN Put(d, "cpu_high_since", t) ELSE d
        high_since == d1["cpu_high_since"]
    IN  IF t - high_since > alert_duration
        THEN IF delivered
             THEN [d |-> Put(d1, "cpu_alert_sent", TRUE), out |-> "alert"]
             ELSE [d |-> d1, out |-> "alert_failed"]
        ELSE [d |-> d1, out |-> "none"]

high_branch(d, t, delivered) ==
    LET d1 == IF ~Has(d, "cpu_high_since") THEN Put(d, "cpu_high_since", t) ELSE d
        high_since == d1["cpu_high_since"]
    IN  IF t - high_since > alert_duration /\ ~Get(d1, "cpu_alert_sent", FALSE)
        THEN IF delivered
             THEN [d |-> Put(d1, "cpu_alert_sent", TRUE), out |-> "alert"]
             ELSE [d |-> d1, out |-> "alert_failed"]
        ELSE [d |-> d1, out |-> "none"]

low_branch_keeps_since(d, delivered) ==
    IF Get(d, "cpu_alert_sent", FALSE)
    THEN IF delivered
         THEN [d |-> Del(d, "cpu_alert_sent"), out |-> "recovery"]
         ELSE [d |-> d, out |-> "recovery_failed"]
    ELSE [d |-> d, out |-> "none"]

\* The else branch: load_percent at or below the threshold.
low_branch(d, delivered) ==
    LET d1 == IF Has(d, "cpu_high_since") THEN Del(d, "cpu_high_since") ELSE d
    IN  IF Get(d1, "cpu_alert_sent", FALSE)
        THEN IF delivered
             THEN [d |-> Del(d1, "cpu_alert_sent"), out |-> "recovery"]
             ELSE [d |-> d1, out |-> "recovery_failed"]
        ELSE [d |-> d1, out |-> "none"]

\* The readings seen so far, kept apart from the store: when the unbroken
\* run of readings above the threshold began, how many alerts were delivered
\* in it and whether one was attempted; and, over all readings, which notice
\* was delivered last and how many were delivered.
Observe(o, t, load_percent, out) ==
    LET sent == out \in {"alert", "recovery"}
        last == IF sent THEN out ELSE o.last
        notices == o.notices + (IF sent THEN 1 ELSE 0)
    IN
    IF load_percent > alert_threshold
    THEN [since |-> IF o.since = -1 THEN t ELSE o.since,
          alerts |-> o.alerts + (IF out = "alert" THEN 1 ELSE 0),
          attempted |-> o.attempted \/ out \in {"alert", "alert_failed"},
          last |-> last, notices |-> notices]
    ELSE [NoRun EXCEPT !.last = last, !.notices = notices]

\* One run of the watcher, late seconds after its scheduled time.  An empty
\* /proc/loadavg makes split()[0] raise before anything is read or written.
cpu_alert_callback(late, readable, load_percent, delivered) ==
    LET t == now + cpu_interval + late
        r == IF load_percent > alert_threshold
             THEN high_branch(bot_data, t, delivered)
             ELSE low_branch(bot_data, delivered)
    IN
    /\ t <= MaxTime
    /\ now' = t
    /\ IF ~readable
       THEN /\ cpu_out' = "unreadable"
            /\ UNCHANGED <<bot_data, obs>>
       ELSE /\ bot_data' = r.d
            /\ cpu_out' = r.out
            /\ obs' = Observe(obs, t, load_percent, r.out)
    /\ UNCHANGED <<live_vars, other_vars>>

\* The latest run of the CPU watcher left by an exception: the load average
\* was unreadable or a send raised.
cpu_raised == cpu_out \in {"unreadable", "alert_failed", "recovery_failed"}

CpuJobRun(late) ==
    \E readable \in BOOLEAN, load_percent \in LoadPercents, delivered \in BOOLEAN :
        JobRun("cpu_alert_callback",
               cpu_alert_callback(late, readable, load_percent, delivered), cpu_raised')

NextCpu == \E late \in 0..MaxLate : CpuJobRun(late)

SpecCpu == Init /\ [][NextCpu]_vars


NextOver(readings) ==
    \/ \E s \in Slots, c \in Chats : StartRequest(s, c)
    \/ \E s \in Slots, answered \in BOOLEAN : StartAnswer(s, answered)
    \/ \E s \in Slots, edited \in BOOLEAN, readable \in BOOLEAN, cur \in readings :
            StartEdit(s, edited, readable, cur)
    \/ \E s \in Slots, c \in Chats : StopRequest(s, c)
    \/ \E s \in Slots, answered \in BOOLEAN : StopAnswer(s, answered)
    \/ \E s \in Slots, shown \in BOOLEAN : StopMenu(s, shown)
    \/ \E j \in job_queue, readable \in BOOLEAN, cur \in readings : TickBegin(j, readable, cur)
    \/ \E i \in JobIds, outcome \in DeliveryOutcomes : TickDeliver(i, outcome)
    \/ \E i \in JobIds, sent \in BOOLEAN : TickNotice(i, sent)

Next == NextOver(Readings)

Spec == Init /\ [][Next]_vars
\* ==================================================== new-device watcher
\* KNOWN_DEVICES_FILE holds a JSON list that is written from a set and read
\* back into a set, so its content is modelled as the set of MAC addresses;
\* the empty set stands for the file that does not exist yet (exists() is
\* false and the known set is set()): the watcher never writes an empty list.

\* The orders in which a for loop can go through the set S.
Orders(S) ==
    {o \in [1..Cardinality(S) -> S] : \A a, b \in 1..Cardinality(S) : o[a] = o[b] => a = b}

\* current_macs: the MAC addresses get_dhcp_leases() parses from the lease
\* table.
current_macs_of(leases) == leases

\* The first run: nothing known yet and at least one device observed.
is_seeding_never(known_devices, current_macs) == FALSE
is_seeding(known_devices, current_macs) == known_devices = {} /\ current_macs # {}

new_macs_unfiltered(current_macs, known_devices) == current_macs
new_macs(current_macs, known_devices) == current_macs \ known_devices

\* What the detecting branch writes after its loop.
stored_after_detection(known_devices, current_macs) == current_macs

\* The loop over new_macs in the order the set yields: one send_message for
\* each address found in get_combined_device_list(), which reads the same
\* lease table again.  fail_at = k > 0 makes the k-th send raise, which
\* leaves the loop; fail_at = 0 lets every send return.
RECURSIVE notify_loop(_, _, _, _, _)
notify_loop(order, k, all_devices, fail_at, msgs) ==
    IF k > Len(order) THEN [msgs |-> msgs, raised |-> FALSE]
    ELSE IF order[k] \notin all_devices
         THEN notify_loop(order, k + 1, all_devices, fail_at, msgs)
         ELSE IF Len(msgs) + 1 = fail_at
              THEN [msgs |-> msgs, raised |-> TRUE]
              ELSE notify_loop(order, k + 1, all_devices, fail_at, Append(msgs, order[k]))

\* The file after the detection branch: write_text follows the loop inside
\* the try, so it is reached only when no send raised, and it stores the
\* new content only when it succeeds.
file_after_failed_detection(file, stored, raised, writable) ==
    IF writable THEN stored ELSE file
file_after_detection(file, stored, raised, writable) ==
    IF ~raised /\ writable THEN stored ELSE file

\* One run of check_new_devices.  The job is registered only when
\* TELEGRAM_ADMIN_ID is set, so the first return is never taken.  Every
\* exception inside the try is caught and logged: the run ends there.
\* readable: reading an existing file succeeds; writable: write_text
\* succeeds.  The awaits of the loop let other jobs run, none of which touches
\* the file or the lease table, and a job does not overlap with itself.
check_new_devices(readable, leases, order, fail_at, writable) ==
    LET known_devices == known_devices_file
        current_macs == current_macs_of(leases)
        news == new_macs(current_macs, known_devices)
        loop == notify_loop(order, 1, current_macs_of(leases), fail_at, <<>>)
        run(branch, error, msgs) ==
            [branch |-> branch, error |-> error, known |-> known_devices_file,
             current |-> current_macs, msgs |-> msgs]
    IN
    /\ readable \/ known_devices_file # {}
    /\ order \in Orders(news)
    /\ fail_at <= Cardinality(news)
    /\ IF ~readable
       THEN /\ dev_out' = run("none", "read", <<>>)
            /\ UNCHANGED known_devices_file
       ELSE IF is_seeding(known_devices, current_macs)
       THEN /\ known_devices_file' = IF writable THEN current_macs ELSE known_devices_file
            /\ dev_out' = run("seed", IF writable THEN "none" ELSE "write", <<>>)
       ELSE IF news # {}
       THEN /\ known_devices_file' =
                  file_after_detection(known_devices_file,
                      stored_after_detection(known_devices, current_macs),
                      loop.raised, writable)
            /\ dev_out' = run("detect",
                              IF loop.raised THEN "send" ELSE IF writable THEN "none" ELSE "write",
                              loop.msgs)
       ELSE /\ dev_out' = run("quiet", "none", <<>>)
            /\ UNCHANGED known_devices_file
    /\ UNCHANGED <<bot_data, live_vars, cpu_vars, wan_vars, reboot_vars, sample_vars, guest_vars, env_vars>>

\* check_new_devices catches every exception itself.
NextDev ==
    \E readable \in BOOLEAN, leases \in SUBSET Macs, fail_at \in 0..MaxMac, writable \in BOOLEAN :
        \E order \in Orders(new_macs(current_macs_of(leases), known_devices_file)) :
            JobRun("check_new_devices",
                   check_new_devices(readable, leases, order, fail_at, writable), FALSE)

SpecDev == Init /\ [][NextDev]_vars

\* =========================================================== WAN watcher
\* The addresses get_wan_interfaces_info() can report for an interface: an
\* IPv4 address, or "N/A" when the interface has none.
Addrs == {"10.0.0." \o ToString(k) : k \in 1..MaxAddr}
IfaceIps == Addrs \cup {"N/A"}
\* wan_info: one entry for each interface that carries a default route, in
\* the order the set of interface names yields.
WanInfos == UNION {[1..n -> [ip : IfaceIps]] : n \in 0..MaxIfaces}

\* The address of the first interface listed, "N/A" when none is listed.
current_ip_of(wan_info) == IF wan_info # <<>> THEN wan_info[1].ip ELSE "N/A"

ip_changed_always(current_ip, last_ip) == TRUE
ip_changed(current_ip, last_ip) == current_ip # last_ip

\* The two messages of check_wan_status.
wan_message(current_ip, last_ip) ==
    IF current_ip = "N/A"
    THEN [kind |-> "lost", old |-> "", new |-> ""]
    ELSE [kind |-> "changed", old |-> last_ip, new |-> current_ip]

\* One run of check_wan_status.  The job is registered only when
\* TELEGRAM_ADMIN_ID is set.  The retained address is written after the
\* awaited send_message: a send that raises ends the run before the write.
\* The run touches no state before the await and only last_wan_ip after it,
\* and it does not overlap with itself, so it is one step.
check_wan_status(wan_info, delivered) ==
    LET current_ip == current_ip_of(wan_info)
        last_ip == bot_data["last_wan_ip"]
        run(last, msgs) ==
            [ran |-> TRUE, wan_info |-> wan_info, last_ip |-> last, msgs |-> msgs,
             delivered |-> delivered]
    IN
    /\ IF ~Has(bot_data, "last_wan_ip")
       THEN /\ bot_data' = Put(bot_data, "last_wan_ip", current_ip)
            /\ wan_out' = run("absent", <<>>)
       ELSE IF ip_changed(current_ip, last_ip)
       THEN /\ bot_data' = IF delivered THEN Put(bot_data, "last_wan_ip", current_ip)
                           ELSE bot_data
            /\ wan_out' = run(last_ip, <<wan_message(current_ip, last_ip)>>)
       ELSE /\ wan_out' = run(last_ip, <<>>)
            /\ UNCHANGED bot_data
    /\ UNCHANGED <<live_vars, cpu_vars, dev_vars, reboot_vars, sample_vars, guest_vars, env_vars>>

\* The latest run of the WAN watcher left by an exception: its send raised.
wan_raised == wan_out.msgs # <<>> /\ ~wan_out.delivered

WanJobRun(infos) ==
    \E wan_info \in infos, delivered \in BOOLEAN :
        JobRun("check_wan_status", check_wan_status(wan_info, delivered), wan_raised')

NextWan == WanJobRun(WanInfos)

SpecWan == Init /\ [][NextWan]_vars

\* ----------------------------------------------- the watchers side by side
\* The CPU watcher firing on time and the WAN watcher on a router with at
\* most one default route, in any order.
SingleWan == {wan_info \in WanInfos : Len(wan_info) <= 1}

NextWatch ==
    \/ CpuJobRun(0)
    \/ WanJobRun(SingleWan)

SpecWatch == Init /\ [][NextWatch]_vars

\* ====================================================== scheduled reboot
\* The argument of the command is a text: a sequence of characters.
Chars == {"2", "6", ":"}
Texts == UNION {[1..n -> Chars] : n \in 1..MaxArgLen}
\* context.args: the words after the command; only the first is looked at.
ArgLists == {<<>>} \cup {<<text>> : text \in Texts}

DigitChars == <<"0", "1", "2", "3", "4", "5", "6", "7", "8", "9">>
IsDigit(c) == \E k \in 1..Len(DigitChars) : DigitChars[k] = c
DigitValue(c) == (CHOOSE k \in 1..Len(DigitChars) : DigitChars[k] = c) - 1

\* ----------------------------------------------------------- admin_only
\* update.effective_user.id of the users who send requests: whole numbers
\* of one and of two digits.
UserIds == {6 * k : k \in 1..MaxUser}

\* str(n) of a whole number n >= 0: its decimal digits, no sign, no padding.
RECURSIVE str(_)
str(n) == IF n < 10 THEN <<DigitChars[n + 1]>>
          ELSE str(n \div 10) \o <<DigitChars[(n % 10) + 1]>>

\* What TELEGRAM_ADMIN_ID can hold: nothing, the id of a user as str writes
\* it, the same number written with a leading zero, or no number at all.
AdminIds ==
    {<<>>, <<"x">>} \cup {str(u) : u \in UserIds} \cup {<<"0">> \o str(u) : u \in UserIds}

\* Whether the wrapper calls the wrapped handler: admin_id is unset or
\* empty ("if not admin_id"), or str(user_id) == str(admin_id), where
\* admin_id is a text already.
admin_only_open(user_id, admin) == TRUE
admin_only(user_id, admin) ==
    IF admin = <<>> THEN TRUE
    ELSE str(user_id) = admin

\* re.match(r'^\d{2}:\d{2}$', text)
matches_HH_MM(text) ==
    /\ Len(text) = 5
    /\ IsDigit(text[1]) /\ IsDigit(text[2])
    /\ text[3] = ":"
    /\ IsDigit(text[4]) /\ IsDigit(text[5])

\* hour, minute = map(int, text.split(':'))
hour_of(text) == 10 * DigitValue(text[1]) + DigitValue(text[2])
minute_of(text) == 10 * DigitValue(text[4]) + DigitValue(text[5])

\* datetime.strptime(f"{hour}:{minute}", "%H:%M") returns a time for these
\* and raises ValueError for all others.
strptime_accepts(hour, minute) == hour \in 0..23 /\ minute \in 0..59

run_daily(q, id, time) == q \cup {[id |-> id, name |-> "scheduled_reboot", time |-> time]}

\* The removal loop of schedule_reboot_handler.
cancel_current_jobs_skipped(q) == q
cancel_current_jobs(q) == schedule_removal(q, get_jobs_by_name(q, "scheduled_reboot"))

\* /schedule_reboot, wrapped by admin_only.  The handler changes the job
\* queue between its start and its only await, the reply at its end, so it
\* is one step; whether the reply is delivered changes nothing.  The old jobs
\* are removed before the time is parsed: a text that matches the pattern
\* and is no time of day leaves the handler by ValueError with the old jobs
\* removed and none registered.
schedule_reboot_handler(user_id, args) ==
    LET authorized == admin_only(user_id, admin_id)
        text == args[1]
        request(matched, hour, minute, reply) ==
            [handler |-> "schedule", user_id |-> user_id, authorized |-> authorized, matched |-> matched,
             hour |-> hour, minute |-> minute,
             before |-> get_jobs_by_name(job_queue, "scheduled_reboot"), reply |-> reply]
    IN
    /\ IF ~authorized
       THEN /\ reboot_out' = request(FALSE, -1, -1, "denied")
            /\ UNCHANGED <<job_queue, next_id>>
       ELSE IF args = <<>> \/ ~matches_HH_MM(text)
       THEN /\ reboot_out' = request(FALSE, -1, -1, "usage")
            /\ UNCHANGED <<job_queue, next_id>>
       ELSE IF ~strptime_accepts(hour_of(text), minute_of(text))
       THEN /\ job_queue' = cancel_current_jobs(job_queue)
            /\ reboot_out' = request(TRUE, hour_of(text), minute_of(text), "raised")
            /\ UNCHANGED next_id
       ELSE /\ next_id <= MaxJobs
            /\ job_queue' = run_daily(cancel_current_jobs(job_queue), next_id,
                                      <<hour_of(text), minute_of(text)>>)
            /\ next_id' = next_id + 1
            /\ reboot_out' = request(TRUE, hour_of(text), minute_of(text), "scheduled")
    /\ UNCHANGED <<bot_data, running, handlers, cpu_vars, dev_vars, wan_vars, watch_jobs, sample_vars, guest_vars, env_vars>>

\* /cancel_reboot, wrapped by admin_only.
cancel_reboot_handler(user_id) ==
    LET authorized == admin_only(user_id, admin_id)
        current_jobs == get_jobs_by_name(job_queue, "scheduled_reboot")
        request(reply) ==
            [handler |-> "cancel", user_id |-> user_id, authorized |-> authorized, matched |-> FALSE,
             hour |-> -1, minute |-> -1, before |-> current_jobs, reply |-> reply]
    IN
    /\ IF ~authorized
       THEN /\ reboot_out' = request("denied")
            /\ UNCHANGED job_queue
       ELSE IF current_jobs = {}
       THEN /\ reboot_out' = request("nothing")
            /\ UNCHANGED job_queue
       ELSE /\ job_queue' = schedule_removal(job_queue, current_jobs)
            /\ reboot_out' = request("cancelled")
    /\ UNCHANGED <<bot_data, next_id, running, handlers, cpu_vars, dev_vars, wan_vars, watch_jobs, sample_vars, guest_vars, env_vars>>

NextReboot ==
    \/ \E user_id \in UserIds, args \in ArgLists : schedule_reboot_handler(user_id, args)
    \/ \E user_id \in UserIds : cancel_reboot_handler(user_id)

SpecReboot == Init /\ [][NextReboot]_vars

\* The reboot commands under every setting of TELEGRAM_ADMIN_ID.
InitAdmin ==
    /\ InitProgram
    /\ InitGuestEnv
    /\ admin_id \in AdminIds
    /\ sample_in = NoInput
    /\ sample_out = NoSample

SpecAdmin == InitAdmin /\ [][NextReboot]_vars

\* ============================================================ guest WiFi
\* /guest_wifi_on [hours] enables the guest radio and registers a run_once
\* job that disables it again; /guest_wifi_off disables it at once.  Time is
\* counted in hours.

\* The first word after /guest_wifi_on: a digit, another character, or none.
HourTexts == {<<DigitChars[h + 1]>> : h \in 0..MaxHours} \cup {<<"x">>}
GuestArgLists == {<<>>} \cup {<<text>> : text \in HourTexts}

\* str.isdigit(): not empty, and every character is a digit.
isdigit(text) == Len(text) > 0 /\ \A k \in 1..Len(text) : IsDigit(text[k])

\* int(text) of a text of digits.
RECURSIVE int(_)
int(text) ==
    IF Len(text) = 0 THEN 0
    ELSE 10 * int(SubSeq(text, 1, Len(text) - 1)) + DigitValue(text[Len(text)])

\* hours = 1; if context.args and context.args[0].isdigit(): hours = int(...)
hours_of(args) == IF args # <<>> /\ isdigit(args[1]) THEN int(args[1]) ELSE 1

\* job_queue.run_once(guest_wifi_off_callback, when=timedelta(hours=hours)):
\* one more job, without a name, due `hours` from now.
run_once(timers, t, hours) == Append(timers, t + hours)

\* /guest_wifi_on, wrapped by admin_only.  The handler has no await before
\* its reply, which changes nothing when it fails.
guest_wifi_on_handler(user_id, args) ==
    LET authorized == admin_only(user_id, admin_id) IN
    /\ Len(guest_timers) < MaxGuestJobs
    /\ IF ~authorized
       THEN /\ guest_out' = [guest_out EXCEPT !.event = "denied"]
            /\ UNCHANGED <<guest_disabled, guest_timers>>
       ELSE IF ~guest_iface
       THEN /\ guest_out' = [guest_out EXCEPT !.event = "no_iface"]
            /\ UNCHANGED <<guest_disabled, guest_timers>>
       ELSE /\ guest_disabled' = FALSE
            /\ guest_timers' = run_once(guest_timers, guest_clock, hours_of(args))
            /\ guest_out' = [event |-> "on", on_at |-> guest_clock,
                             hours |-> hours_of(args), off_issued |-> FALSE]
    /\ UNCHANGED <<bot_data, live_vars, cpu_vars, dev_vars, wan_vars, reboot_vars,
                   watch_jobs, sample_vars, env_vars, guest_iface, guest_clock>>

\* /guest_wifi_off, wrapped by admin_only: the radio is disabled; the job
\* queue is not touched.
guest_wifi_off_handler(user_id) ==
    LET authorized == admin_only(user_id, admin_id) IN
    /\ IF ~authorized
       THEN /\ guest_out' = [guest_out EXCEPT !.event = "denied"]
            /\ UNCHANGED guest_disabled
       ELSE IF ~guest_iface
       THEN /\ guest_out' = [guest_out EXCEPT !.event = "no_iface"]
            /\ UNCHANGED guest_disabled
       ELSE /\ guest_disabled' = TRUE
            /\ guest_out' = [guest_out EXCEPT !.event = "off", !.off_issued = TRUE]
    /\ UNCHANGED <<bot_data, live_vars, cpu_vars, dev_vars, wan_vars, reboot_vars,
                   watch_jobs, sample_vars, env_vars, guest_iface, guest_clock, guest_timers>>

\* A run_once job is due and the job queue runs guest_wifi_off_callback; the
\* job has left the queue, however the callback ends.
guest_wifi_off_callback(k) ==
    /\ k \in 1..Len(guest_timers)
    /\ guest_timers[k] <= guest_clock
    /\ guest_timers' = SubSeq(guest_timers, 1, k - 1) \o SubSeq(guest_timers, k + 1, Len(guest_timers))
    /\ IF ~guest_iface
       THEN UNCHANGED <<guest_disabled, guest_out>>
       ELSE /\ guest_disabled' = TRUE
            /\ guest_out' = [guest_out EXCEPT !.event = "auto_off"]
    /\ UNCHANGED <<bot_data, live_vars, cpu_vars, dev_vars, wan_vars, reboot_vars,
                   watch_jobs, sample_vars, env_vars, guest_iface, guest_clock>>

\* An hour passes.  The job queue runs a job when it is due: no job is left
\* behind its time.
HourPasses ==
    /\ guest_clock < MaxGuestClock
    /\ \A k \in 1..Len(guest_timers) : guest_timers[k] > guest_clock
    /\ guest_clock' = guest_clock + 1
    /\ UNCHANGED <<bot_data, live_vars, cpu_vars, dev_vars, wan_vars, reboot_vars,
                   watch_jobs, sample_vars, env_vars, guest_iface, guest_disabled, guest_timers, guest_out>>

InitGuest ==
    /\ InitProgram
    /\ InitAdminEnv
    /\ guest_iface \in BOOLEAN
    /\ guest_disabled \in BOOLEAN
    /\ sample_in = NoInput
    /\ sample_out = NoSample

NextGuest ==
    \/ \E user_id \in UserIds, args \in GuestArgLists : guest_wifi_on_handler(user_id, args)
    \/ \E user_id \in UserIds : guest_wifi_off_handler(user_id)
    \/ \E k \in 1..MaxGuestJobs : guest_wifi_off_callback(k)
    \/ HourPasses

SpecGuest == InitGuest /\ [][NextGuest]_vars

\* ============================================================ the sampler
\* get_live_stats as a function of the retained snapshot, of what the
\* counter files hold and of the environment.  Times are in half seconds;
\* a quotient that Python computes as a float is rounded down to a whole
\* number, which keeps its sign and its order against whole numbers below
\* it.  ram_percent is no function of the snapshot and is left out.

\* Bytes per second that make one Mbit/s in get_live_stats: 1024**2 bits.
BytesPerMbps == (1024 * 1024) \div 8
\* The default of MAX_DISK_SPEED_BPS.
MAX_DISK_SPEED_BPS == 50 * 1024 * 1024
SECTOR_BYTES == 512

SampleTimes == 0..MaxSampleTime
ByteCounts == {k * BytesPerMbps : k \in Counters}
\* What the counter files and the clock hold when get_live_stats reads them:
\* /proc/stat, the sector counts of /proc/diskstats, rx_bytes and tx_bytes
\* of the interface, time.time().
FullReadings ==
    {r \in [time : SampleTimes, cpu_total : Counters, cpu_idle : Counters,
            sectors_read : Counters, sectors_written : Counters,
            rx : ByteCounts, tx : ByteCounts] : r.cpu_idle <= r.cpu_total}

\* MAX_SPEED_<iface> or NET_MAX_DOWNLOAD_MBPS, NET_MAX_UPLOAD_MBPS.
Environments == [down_mbps : 0..MaxMbps, up_mbps : 0..MaxMbps]

\* The snapshot live_monitor_start_handler or an earlier call of
\* get_live_stats stored when the files held r, for the interfaces listed.
RECURSIVE net_stats(_, _, _)
net_stats(interfaces, k, r) ==
    IF k > Len(interfaces) THEN EmptyDict
    ELSE Put(Put(net_stats(interfaces, k + 1, r), "rx_" \o interfaces[k], r.rx),
             "tx_" \o interfaces[k], r.tx)

snapshot_of(r, interfaces) ==
    LET base == [time |-> r.time, cpu_total |-> r.cpu_total, cpu_idle |-> r.cpu_idle,
                 disk_read |-> r.sectors_read * SECTOR_BYTES,
                 disk_write |-> r.sectors_written * SECTOR_BYTES,
                 interfaces |-> interfaces]
        net == net_stats(interfaces, 1, r)
    IN  [k \in DOMAIN base \cup DOMAIN net |-> IF k \in DOMAIN net THEN net[k] ELSE base[k]]

\* time_delta in half seconds: at least 0.5 s.
time_delta(prev_stats, time_now) ==
    LET d == time_now - Get(prev_stats, "time", time_now)
    IN  IF d < 1 THEN 1 ELSE d

\* A difference of counters over time_delta, in units per second.
per_second(difference, dt) == (2 * difference) \div dt

disk_rw_speed(prev_stats, cur, dt) ==
    per_second((cur.sectors_read * SECTOR_BYTES - Get(prev_stats, "disk_read", 0))
               + (cur.sectors_written * SECTOR_BYTES - Get(prev_stats, "disk_write", 0)), dt)

net_speed(prev_stats, key, current, dt) ==
    per_second(current - Get(prev_stats, key, current), dt)

net_percent(speed, mbps) ==
    IF mbps > 0 THEN (speed * 8 * 100) \div (mbps * 1024 * 1024) ELSE 0

\* The loop over the interfaces of the snapshot.
RECURSIVE interfaces_data(_, _, _, _, _, _)
interfaces_data(interfaces, k, prev_stats, cur, env, dt) ==
    IF k > Len(interfaces) THEN <<>>
    ELSE LET iface == interfaces[k]
             net_down_speed == net_speed(prev_stats, "rx_" \o iface, cur.rx, dt)
             net_up_speed == net_speed(prev_stats, "tx_" \o iface, cur.tx, dt)
         IN  <<[name |-> iface,
                net_up_speed |-> net_up_speed, net_down_speed |-> net_down_speed,
                net_up_percent |-> net_percent(net_up_speed, env.up_mbps),
                net_down_percent |-> net_percent(net_down_speed, env.down_mbps)]>>
             \o interfaces_data(interfaces, k + 1, prev_stats, cur, env, dt)

\* The whole of get_live_stats; its CPU part is get_live_stats above.
live_sample(prev_stats, cur, env) ==
    LET interfaces == Get(prev_stats, "interfaces", <<>>)
        dt == time_delta(prev_stats, cur.time)
        cpu == get_live_stats(prev_stats, cur)
        disk == disk_rw_speed(prev_stats, cur, dt)
    IN  [live_data |->
            [cpu_percent |-> cpu.live_data.cpu_percent,
             disk_rw_speed |-> disk,
             disk_percent |-> (disk * 100) \div MAX_DISK_SPEED_BPS,
             interfaces_data |-> interfaces_data(interfaces, 1, prev_stats, cur, env, dt)],
         next_stats |-> snapshot_of(cur, interfaces)]

\* The snapshots the sampler is given: none, or one taken when every
\* counter stood at the same level.
Level(k, t) ==
    [time |-> t, cpu_total |-> k, cpu_idle |-> 0, sectors_read |-> k, sectors_written |-> k,
     rx |-> k * BytesPerMbps, tx |-> k * BytesPerMbps]
PrevSnapshots ==
    {EmptyDict} \cup {snapshot_of(Level(k, t), <<"eth0">>) : k \in Counters, t \in SampleTimes}

SamplerInputs == [prev_stats : PrevSnapshots, cur : FullReadings, env : Environments]

InitSampler ==
    /\ InitProgram
    /\ InitGuestEnv
    /\ InitAdminEnv
    /\ sample_in \in SamplerInputs
    /\ sample_out = NoSample

Sample ==
    /\ sample_out = NoSample
    /\ sample_out' = live_sample(sample_in.prev_stats, sample_in.cur, sample_in.env)
    /\ UNCHANGED <<bot_data, live_vars, cpu_vars, dev_vars, wan_vars, reboot_vars,
                   watch_jobs, sample_in, guest_vars, env_vars>>

NextSampler == Sample

SpecSampler == InitSampler /\ [][NextSampler]_vars

\* ------------------------------------------- the live session with ticks firing
\* The job queue fires a registered repeating job every two seconds for as
\* long as it is registered, and an awaited edit_message_text or
\* send_message ends, by its reply or by its timeout: no tick job stays
\* unfired for ever and no invocation stays suspended for ever.  Requests
\* arrive or not.  Which jobs are registered does not depend on what the
\* counters hold, only on whether they can be read: the readings are held
\* steady.
SteadyReadings == {[cpu_total |-> 0, cpu_idle |-> 0]}
TickJobs == {[id |-> i, name |-> job_name(c), chat_id |-> c] : i \in JobIds, c \in Chats}

TicksKeepFiring ==
    /\ \A j \in TickJobs : WF_vars(\E readable \in BOOLEAN, cur \in SteadyReadings : TickBegin(j, readable, cur))
    /\ \A i \in JobIds : WF_vars(\E outcome \in DeliveryOutcomes : TickDeliver(i, outcome))
    /\ \A i \in JobIds : WF_vars(\E sent \in BOOLEAN : TickNotice(i, sent))

NextTicking == NextOver(SteadyReadings)

SpecTicking == Init /\ [][NextTicking]_vars /\ TicksKeepFiring

\* ------------------------------------- the live session beside the watchers
\* The program after the watchers have run for a while: the WAN watcher has
\* stored the address it observed first, the CPU watcher has seen the load
\* high since its first run and has delivered the alert at its seventh.
\* From there on the live session runs as in Spec.
InitFrame ==
    /\ bot_data = [cpu_high_since |-> cpu_interval, cpu_alert_sent |-> TRUE,
                   last_wan_ip |-> "10.0.0.1"]
    /\ job_queue = {}
    /\ next_id = 1
    /\ running = [i \in JobIds |-> IdleRun]
    /\ handlers = [s \in Slots |-> IdleHandler]
    /\ now = 7 * cpu_interval
    /\ cpu_out = "alert"
    /\ obs = [since |-> cpu_interval, alerts |-> 1, attempted |-> TRUE,
              last |-> "alert", notices |-> 1]
    /\ known_devices_file = {}
    /\ dev_out = NoDevRun
    /\ wan_out = [ran |-> TRUE, wan_info |-> <<[ip |-> "10.0.0.1"]>>, last_ip |-> "absent",
                  msgs |-> <<>>, delivered |-> TRUE]
    /\ reboot_out = NoRebootRequest
    /\ watch_jobs = WatcherJobs
    /\ sample_in = NoInput
    /\ sample_out = NoSample
    /\ guest_clock = 0
    /\ guest_timers = <<>>
    /\ guest_out = NoGuestRequest
    /\ InitGuestEnv
    /\ InitAdminEnv

SpecFrame == InitFrame /\ [][Next]_vars

\* ======================================================== live session
LiveJobs(c) == get_jobs_by_name(job_queue, job_name(c))
TheJob(i) == [id |-> i, name |-> job_name(running[i].chat_id), chat_id |-> running[i].chat_id]

\* C1: in every reachable state at most one tick job named live_<chat> is
\* registered for each chat, whatever the interleaving of start requests,
\* stop requests and ticks.
C1_AtMostOneJob == \A c \in Chats : Cardinality(LiveJobs(c)) <= 1

\* A start handler is suspended between its check and its registration
\* while a tick of an earlier job of the same chat is still awaiting its
\* delivery.
C1_Witness ==
    \E s \in Slots, i \in JobIds :
        /\ handlers[s].kind = "start" /\ handlers[s].pc = "edit"
        /\ running[i].pc = "edit" /\ running[i].chat_id = handlers[s].chat_id

\* C2: a start request handled while a tick job of the chat is registered
\* ends at the check: it replaces no snapshot and registers no job, so exactly
\* one job stays registered for the chat.
C2_SecondStartIsNoOp ==
    [][\A s \in Slots :
        (/\ handlers[s].kind = "start" /\ handlers[s].pc = "answer"
         /\ LiveJobs(handlers[s].chat_id) # {}
         /\ handlers'[s] # handlers[s])
        => /\ handlers'[s].pc \in {"returned", "raised"}
           /\ bot_data' = bot_data
           /\ job_queue' = job_queue
           /\ next_id' = next_id
           /\ Cardinality(get_jobs_by_name(job_queue', job_name(handlers[s].chat_id))) = 1]_vars

\* The second start request is about to make its check: a job of the chat is
\* registered and its snapshot is retained.
C2_Witness ==
    \E s \in Slots :
        /\ handlers[s].kind = "start" /\ handlers[s].pc = "answer"
        /\ Cardinality(LiveJobs(handlers[s].chat_id)) = 1
        /\ Has(bot_data, job_name(handlers[s].chat_id))

\* C3: when the delivery of a tick fails in any way other than "message
\* gone" and "content unchanged", the tick's job is removed and the snapshot
\* is dropped before the failure notice is sent, and a failure of the notice
\* is swallowed.
C3_OtherFailureStops ==
    [][\A i \in JobIds :
        /\ \A outcome \in {"bad_request", "error"} :
              (running[i].pc = "edit" /\ TickDeliver(i, outcome))
              => /\ TheJob(i) \notin job_queue'
                 /\ ~Has(bot_data', job_name(running[i].chat_id))
                 /\ running'[i].pc = "notice"
        /\ (running[i].pc = "notice" /\ TickNotice(i, FALSE)) => running'[i] = IdleRun]_vars

\* C4: when the delivery of a tick fails because the message is gone, the
\* tick's job is removed and the snapshot is dropped, and the callback
\* returns without sending a notice.
C4_GoneStopsSilently ==
    [][\A i \in JobIds :
        (running[i].pc = "edit" /\ TickDeliver(i, "gone"))
        => /\ TheJob(i) \notin job_queue'
           /\ ~Has(bot_data', job_name(running[i].chat_id))
           /\ running'[i] = IdleRun]_vars

\* A tick awaits its delivery while its job is registered and its snapshot
\* is retained.
C4_Witness ==
    \E i \in JobIds :
        /\ running[i].pc = "edit"
        /\ TheJob(i) \in job_queue
        /\ Has(bot_data, job_name(running[i].chat_id))

\* C5: when the delivery of a tick fails as "content unchanged", the callback
\* returns and changes nothing: the job stays registered, the snapshot stays
\* the one the tick stored, no notice is sent.
C5_UnchangedKeepsSession ==
    [][\A i \in JobIds :
        (running[i].pc = "edit" /\ TickDeliver(i, "unchanged"))
        => /\ job_queue' = job_queue
           /\ bot_data' = bot_data
           /\ running'[i] = IdleRun]_vars

\* A tick awaits its delivery, its job is registered and the retained
\* snapshot is the one this tick produced from a different earlier one.
C5_Witness ==
    \E i \in JobIds :
        /\ running[i].pc = "edit"
        /\ TheJob(i) \in job_queue
        /\ Has(bot_data, job_name(running[i].chat_id))
        /\ bot_data[job_name(running[i].chat_id)] = running[i].next_stats
        /\ running[i].next_stats.cpu_total = MaxCounter

\* C6: once acknowledged, stop leaves no job of the chat's name registered
\* and no snapshot of the chat retained; when no job of the chat is
\* registered it changes neither the job queue nor the store and goes on to
\* redraw the menu without raising.
C6_StopClearsSession ==
    [][\A s \in Slots :
        (handlers[s].kind = "stop" /\ handlers[s].pc = "answer" /\ StopAnswer(s, TRUE))
        => LET c == handlers[s].chat_id IN
           /\ get_jobs_by_name(job_queue', job_name(c)) = {}
           /\ ~Has(bot_data', job_name(c))
           /\ handlers'[s].pc = "menu"
           /\ LiveJobs(c) = {} => (job_queue' = job_queue /\ bot_data' = bot_data)]_vars

\* Stop has removed the job of a chat while one of its ticks was awaiting
\* its delivery.
C6_Witness ==
    \E s \in Slots, i \in JobIds :
        /\ handlers[s].kind = "stop" /\ handlers[s].pc = "menu"
        /\ running[i].pc = "edit" /\ running[i].chat_id = handlers[s].chat_id
        /\ LiveJobs(handlers[s].chat_id) = {}
        /\ ~Has(bot_data, job_name(handlers[s].chat_id))

\* C7: a tick that finds no snapshot under its job's name removes its own
\* job, attempts no delivery and creates no entry in the store.
C7_TickWithoutState ==
    [][\A j \in job_queue :
        (/\ ~Has(bot_data, j.name)
         /\ running[j.id].pc = "idle"
         /\ \E readable \in BOOLEAN, cur \in Readings : TickBegin(j, readable, cur))
        => /\ j \notin job_queue'
           /\ running'[j.id] = IdleRun
           /\ bot_data' = bot_data]_vars

\* A registered job whose snapshot is absent is about to fire.
C7_Witness ==
    \E j \in job_queue : ~Has(bot_data, j.name) /\ running[j.id].pc = "idle"

\* ========================================================== CPU watcher
AlertSent == Get(bot_data, "cpu_alert_sent", FALSE)

\* C8: after every run of the CPU watcher the alert-sent flag is true only
\* if the high-since timestamp is set and the load has been above the
\* threshold without a break for longer than the alert duration.
C8_FlagOnlyWhileHigh ==
    AlertSent => /\ Has(bot_data, "cpu_high_since")
                 /\ obs.since # -1
                 /\ now - obs.since > alert_duration

\* C9: no alert is sent while the load has been above the threshold for less
\* than the alert duration, and at most one alert is delivered within one
\* unbroken run of high load, which a single reading at or below the
\* threshold ends.
C9_NoEarlyNoDuplicateAlert ==
    /\ cpu_out \in {"alert", "alert_failed"}
            => (obs.since # -1 /\ now - obs.since >= alert_duration)
    /\ obs.alerts <= 1

\* A run of high load in which the alert was delivered at an earlier tick
\* and the latest tick, still high, sent nothing.
C9_Witness ==
    /\ obs.since # -1
    /\ obs.alerts = 1
    /\ cpu_out = "none"
    /\ now - obs.since > alert_duration

\* C10: at a tick that reads the load above the threshold when it has been
\* so for the alert duration, the alert has been sent in this run of high
\* load.  Stated in the reading most favourable to the code: the run has
\* lasted longer than the duration, and an attempt to send counts.
C10_AlertAfterDuration ==
    (obs.since # -1 /\ cpu_out # "unreadable" /\ now - obs.since > alert_duration)
    => obs.attempted

\* C11: a run of the CPU watcher that reads the load at or below the
\* threshold right after a run of high load, and whose send, if it makes
\* one, returns, leaves neither the high-since timestamp nor the alert-sent
\* flag in the store, and it delivers a recovery notice exactly when an alert
\* was delivered in the run of high load that this reading ends.
C11_LowClearsAndRecoversOnce ==
    [][(/\ obs.since # -1
        /\ \E late \in 0..MaxLate, load_percent \in LoadPercents :
              /\ load_percent <= alert_threshold
              /\ cpu_alert_callback(late, TRUE, load_percent, TRUE))
       => /\ ~Has(bot_data', "cpu_high_since")
          /\ ~Get(bot_data', "cpu_alert_sent", FALSE)
          /\ (cpu_out' = "recovery") <=> (obs.alerts >= 1)]_vars

\* =================================================== new-device watcher
\* How many notifications of the latest run were for the device m.
NoticesFor(m) == Cardinality({k \in 1..Len(dev_out.msgs) : dev_out.msgs[k] = m})

\* C12: after a run of the new-device watcher that detected new devices and
\* completed, the stored known set is the union of the known set before the
\* run and the set observed in the run, so that no device leaves the known
\* set.
C12_KnownSetIsUnion ==
    (dev_out.branch = "detect" /\ dev_out.error = "none")
    => known_devices_file = dev_out.known \cup dev_out.current

C14_FirstRunSeedsSilently ==
    (dev_out.known = {} /\ dev_out.current # {})
    => /\ dev_out.branch = "seed"
       /\ dev_out.msgs = <<>>
       /\ dev_out.error = "none" => known_devices_file = dev_out.current

\* The first run has stored the two devices it observed.
C14_Witness ==
    /\ dev_out.branch = "seed" /\ dev_out.error = "none"
    /\ dev_out.known = {}
    /\ Cardinality(dev_out.current) = 2
    /\ known_devices_file = dev_out.current

\* ========================================================== WAN watcher
\* C15: a run of the WAN watcher sends a message exactly when an address is
\* retained and differs from the observed one; it then sends one message,
\* "connection lost" when the observed address is "N/A" and "changed from
\* the retained to the observed address" otherwise, and once the message is
\* delivered the retained address is the observed one.  The first
\* observation is stored without a message.
C15_WanNotifiesOnChange ==
    wan_out.ran
    => LET observed == current_ip_of(wan_out.wan_info)
           differs == wan_out.last_ip # "absent" /\ wan_out.last_ip # observed
       IN  /\ (wan_out.msgs # <<>>) <=> differs
           /\ differs =>
                /\ Len(wan_out.msgs) = 1
                /\ wan_out.msgs[1].kind = IF observed = "N/A" THEN "lost" ELSE "changed"
                /\ observed # "N/A" => (/\ wan_out.msgs[1].old = wan_out.last_ip
                                        /\ wan_out.msgs[1].new = observed)
           /\ bot_data["last_wan_ip"] =
                IF differs /\ ~wan_out.delivered THEN wan_out.last_ip ELSE observed

\* The watcher has reported a change from one address to another and now
\* retains the new one.
C15_Witness ==
    /\ wan_out.ran /\ wan_out.delivered
    /\ wan_out.last_ip \in Addrs
    /\ current_ip_of(wan_out.wan_info) \in Addrs \ {wan_out.last_ip}
    /\ Len(wan_out.msgs) = 1
    /\ bot_data["last_wan_ip"] = current_ip_of(wan_out.wan_info)

\* ===================================================== scheduled reboot
RebootJobs == get_jobs_by_name(job_queue, "scheduled_reboot")

\* C16: after /schedule_reboot from the admin with a text of the form HH:MM
\* that is a time of day, exactly one job named scheduled_reboot is
\* registered: it is a new job for that time, and no job that was registered
\* before the request is registered any more.
C16_OneRebootJob ==
    (/\ reboot_out.handler = "schedule" /\ reboot_out.authorized
     /\ reboot_out.matched /\ reboot_out.hour <= 23 /\ reboot_out.minute <= 59)
    => /\ Cardinality(RebootJobs) = 1
       /\ RebootJobs \cap reboot_out.before = {}
       /\ \A j \in RebootJobs : j.time = <<reboot_out.hour, reboot_out.minute>>

\* A reboot was scheduled while an earlier one was registered: the earlier
\* job is gone and the new one is registered.
C16_Witness ==
    /\ reboot_out.handler = "schedule" /\ reboot_out.reply = "scheduled"
    /\ reboot_out.before # {}
    /\ Cardinality(RebootJobs) = 1
    /\ RebootJobs \cap reboot_out.before = {}

C18_UnreadableCounterIsZero ==
    [][\A j \in job_queue :
        (/\ Has(bot_data, j.name)
         /\ running[j.id].pc = "idle"
         /\ \E cur \in Readings : TickBegin(j, FALSE, cur))
        => /\ j \in job_queue'
           /\ Has(bot_data', j.name)
           /\ bot_data'[j.name] =
                get_live_stats(bot_data[j.name], [cpu_total |-> 0, cpu_idle |-> 0]).next_stats
           /\ running'[j.id].pc = "edit"]_vars

\* The sampler has returned a sample for an interface.
Sampled == sample_out # NoSample /\ sample_out.live_data.interfaces_data # <<>>
Lower(key, current) ==
    Has(sample_in.prev_stats, key) /\ current < sample_in.prev_stats[key]

\* C19: when a cumulative counter (interface bytes received or sent, disk
\* sectors read or written) is lower in the current reading than in the
\* retained snapshot, the throughput computed from it is 0 and never
\* negative: so no throughput of a sample is negative, and the throughput of
\* an interface direction whose counter went down is 0.
C19_ResetGivesZeroThroughput ==
    Sampled
    => /\ sample_out.live_data.disk_rw_speed >= 0
       /\ \A k \in 1..Len(sample_out.live_data.interfaces_data) :
            LET d == sample_out.live_data.interfaces_data[k] IN
            /\ d.net_down_speed >= 0 /\ d.net_up_speed >= 0
            /\ Lower("rx_" \o d.name, sample_in.cur.rx) => d.net_down_speed = 0
            /\ Lower("tx_" \o d.name, sample_in.cur.tx) => d.net_up_speed = 0

\* C20: every utilization percentage of a sample, of the CPU and of each
\* interface in each direction, lies between 0 and 100, for every pair of
\* snapshots and every capacity, and is 0 for a capacity of 0.
C20_PercentagesWithinRange ==
    Sampled
    => /\ sample_out.live_data.cpu_percent \in 0..100
       /\ \A k \in 1..Len(sample_out.live_data.interfaces_data) :
            LET d == sample_out.live_data.interfaces_data[k] IN
            /\ d.net_down_percent \in 0..100
            /\ d.net_up_percent \in 0..100
            /\ sample_in.env.down_mbps = 0 => d.net_down_percent = 0
            /\ sample_in.env.up_mbps = 0 => d.net_up_percent = 0

OnlyOwnSession(c) ==
    /\ \A k \in (DOMAIN bot_data \cup DOMAIN bot_data') \ {job_name(c)} :
          /\ k \in DOMAIN bot_data /\ k \in DOMAIN bot_data'
          /\ bot_data'[k] = bot_data[k]
    /\ \A j \in job_queue \ job_queue' : j.name = job_name(c)

\* The chats for whose live session a step is taken: a stop handler of the
\* chat moves, an invocation of a tick of the chat moves, or a tick that
\* found no snapshot has removed its job and returned.
StopMoves(c) ==
    \E s \in Slots :
        handlers[s].kind = "stop" /\ handlers[s].chat_id = c /\ handlers'[s] # handlers[s]
TickMoves(c) ==
    \/ \E i \in JobIds :
          /\ running'[i] # running[i]
          /\ running[i].chat_id = c \/ running'[i].chat_id = c
    \/ /\ running' = running /\ handlers' = handlers
       /\ \E j \in job_queue \ job_queue' : j.chat_id = c

\* C22: a tick of a chat's live session, with every outcome of its delivery
\* and of its failure notice, and a stop of it leave unchanged the snapshots
\* of other chats, the fields of the CPU watcher and the last WAN address,
\* and remove no job other than that chat's tick job.
C22_SessionStepsAreLocal ==
    [][\A c \in Chats : (StopMoves(c) \/ TickMoves(c)) => OnlyOwnSession(c)]_vars

\* The session of one chat has just been ended by a failed delivery, its
\* failure notice still to be sent, while another chat's session is active
\* and the watchers' entries are in the store.
C22_Witness ==
    \E i \in JobIds, c \in Chats :
        /\ running[i].pc = "notice"
        /\ c # running[i].chat_id
        /\ ~Has(bot_data, job_name(running[i].chat_id))
        /\ LiveJobs(running[i].chat_id) = {}
        /\ Has(bot_data, job_name(c)) /\ LiveJobs(c) # {}
        /\ Has(bot_data, "cpu_high_since") /\ Has(bot_data, "cpu_alert_sent")
        /\ Has(bot_data, "last_wan_ip")

\* ================================================ late delivery failure
\* Invocation i of live_update_callback awaits its delivery while its own job
\* has left the queue and a later job of the same chat is registered with a
\* retained snapshot: the session it began under was stopped and a new one
\* was started.
LateTick(i) ==
    /\ running[i].pc = "edit"
    /\ TheJob(i) \notin job_queue
    /\ LiveJobs(running[i].chat_id) # {}
    /\ Has(bot_data, job_name(running[i].chat_id))

\* C23: when the delivery of a tick that began under an earlier session of
\* the chat ends, in failure too, the snapshot retained for the chat's new
\* session stays in the store with its value and the new session's job stays
\* registered.
C23_LateFailureSparesNewSession ==
    [][\A i \in JobIds :
          (LateTick(i) /\ running'[i].pc # "edit")
          => /\ Has(bot_data', job_name(running[i].chat_id))
             /\ bot_data'[job_name(running[i].chat_id)] = bot_data[job_name(running[i].chat_id)]
             /\ LiveJobs(running[i].chat_id)' = LiveJobs(running[i].chat_id)]_vars

\* ============================================================ guest WiFi
\* The step in which an auto-off job has disabled the guest radio.
AutoOff ==
    /\ Len(guest_timers') < Len(guest_timers)
    /\ guest_iface
    /\ guest_disabled'

\* C24: after a /guest_wifi_on and with no /guest_wifi_off since, no auto-off
\* job disables the guest radio before the hours given in the latest
\* /guest_wifi_on have passed since that request, also when there were
\* several requests.
C24_NoAutoOffBeforeLatestDuration ==
    [][(AutoOff /\ guest_out.on_at # -1 /\ ~guest_out.off_issued)
       => guest_clock >= guest_out.on_at + guest_out.hours]_vars

\* ======================================================= scheduled reboot
\* C25: a /schedule_reboot whose argument is no time of day, because it is
\* not of the form HH:MM or because its hour is above 23 or its minute above
\* 59, leaves the registered scheduled_reboot jobs as they were.
C25_InvalidTimeKeepsJobs ==
    (reboot_out.handler = "schedule" /\ reboot_out.authorized
        /\ ~(reboot_out.matched /\ strptime_accepts(reboot_out.hour, reboot_out.minute)))
    => RebootJobs = reboot_out.before

\* ============================================================ CPU watcher
\* C26: the notices the CPU watcher has delivered alternate strictly,
\* beginning with an alert: the first, third, ... delivered notice is a
\* "performance degraded" alert and the second, fourth, ... a recovery
\* notice, whatever the readings and whichever sends have failed.
C26_NoticesAlternate ==
    /\ obs.notices = 0 => obs.last = "none"
    /\ (obs.notices > 0 /\ obs.notices % 2 = 1) => obs.last = "alert"
    /\ (obs.notices > 0 /\ obs.notices % 2 = 0) => obs.last = "recovery"

\* An alert, a recovery notice and a second alert have been delivered.
C26_Witness ==
    /\ obs.notices = 3
    /\ obs.last = "alert"
    /\ cpu_out = "alert"

\* ========================================================= live session
\* C27: whenever a snapshot is retained under live_<chat>, a tick job of
\* that name is registered; so a stop that finds a snapshot to delete has
\* found a job to remove, and its deletion does not raise.
C27_SnapshotHasJob ==
    /\ \A c \in Chats : Has(bot_data, job_name(c)) => LiveJobs(c) # {}
    /\ \A c \in Chats :
          ~stop_store(bot_data, job_name(c), LiveJobs(c)).raised

\* A stop handler is about to look up the jobs of a chat whose snapshot is
\* retained, while a tick of that chat awaits its delivery.
C27_Witness ==
    \E s \in Slots, i \in JobIds :
        /\ handlers[s].kind = "stop" /\ handlers[s].pc = "answer"
        /\ Has(bot_data, job_name(handlers[s].chat_id))
        /\ running[i].pc = "edit" /\ running[i].chat_id = handlers[s].chat_id

\* A tick job of chat c is registered while no snapshot is retained for c.
Orphaned(c) == LiveJobs(c) # {} /\ ~Has(bot_data, job_name(c))

\* C28: a registered tick job whose snapshot is absent is removed when it
\* fires next; and with ticks firing, once a chat's tick job is registered
\* without a snapshot, either a new start stores a snapshot again or
\* eventually no tick job of the chat is registered, however many jobs are
\* registered under the name.
C28_OrphanedJobsDrain ==
    /\ [][\A j \in job_queue :
            (/\ ~Has(bot_data, j.name)
             /\ \E readable \in BOOLEAN, cur \in Readings : TickBegin(j, readable, cur))
            => LiveJobs(j.chat_id)' = LiveJobs(j.chat_id) \ {j}]_vars
    /\ \A c \in Chats :
          Orphaned(c) ~> (LiveJobs(c) = {} \/ Has(bot_data, job_name(c)))

\* The snapshot of a chat has been dropped by the late failure of an earlier
\* tick while the invocation of the chat's registered job awaits its
\* delivery: that job fires once more and finds nothing.
C28_Witness ==
    \E j \in job_queue :
        /\ ~Has(bot_data, j.name)
        /\ running[j.id].pc = "edit"

C30_BodyRunsOnlyForAdmin ==
    reboot_out.handler # "none"
    => /\ (reboot_out.reply # "denied")
            <=> (admin_id = <<>> \/ admin_id = str(reboot_out.user_id))
       /\ reboot_out.reply = "denied" => RebootJobs = reboot_out.before

\* With the two-digit id of the admin configured, a user whose id is a
\* digit of it has asked to cancel the scheduled reboot and was denied; the
\* job is still registered.
C30_Witness ==
    /\ admin_id = <<"1", "2">>
    /\ reboot_out.handler = "cancel" /\ reboot_out.user_id = 6
    /\ reboot_out.reply = "denied"
    /\ RebootJobs # {}
====
